---- MODULE Spec2Model ----
(***************************************************************************)
(* Model of the CollabCode Studio backend (src/main.py, src/schemas.py):   *)
(* registration and login, bearer-token sessions with a seven day expiry,  *)
(* and the shared chat feed.                                               *)
(*                                                                         *)
(* Strings the code inspects character by character (Authorization header, *)
(* password, salt, stored hash, token) are sequences of one-character      *)
(* strings.  A chat message's content is represented by its length, the    *)
(* only thing the code looks at.  Time is the reading of the UTC clock, in *)
(* units of a day; two readings taken within one unit are equal.           *)
(***************************************************************************)
EXTENDS Integers, Sequences, FiniteSets, TLC

\* ------------------------------------------------------------------ bounds
MaxUsers == 2
MaxSessions == 2
MaxMessages == 2
MaxPending == 2
MaxTime == 8

\* ------------------------------------------------------- program constants
SESSION_DAYS == 7
LIST_LIMIT == 50
CONTENT_MIN == 1
CONTENT_MAX == 2000

\* ------------------------------------------------------------ input values
Emails == {"a@x.com", "b@x.com"}
Passwords == {<<"p">>, <<"p", "$">>}
Salts == {<<"a", "1">>, <<"b", "2">>}
Contents == {0, CONTENT_MIN, CONTENT_MAX, CONTENT_MAX + 1}

TokenChars == <<"1", "2", "3", "4", "5", "6", "7", "8", "9", "u", "v", "w", "x", "y", "z">>

\* ------------------------------------------------------------ string tools

\* reversed(s)
Reverse(s) == [i \in 1..Len(s) |-> s[Len(s) + 1 - i]]

\* str.lower() on one character
LowerChar(c) ==
  CASE c = "B" -> "b" [] c = "E" -> "e" [] c = "A" -> "a" [] c = "R" -> "r"
    [] c = "S" -> "s" [] c = "I" -> "i" [] c = "C" -> "c" [] c = "T" -> "t"
    [] OTHER -> c

\* str.lower()
Lower(s) == [i \in 1..Len(s) |-> LowerChar(s[i])]

\* str.startswith(prefix)
StartsWith(s, prefix) ==
  /\ Len(s) >= Len(prefix)
  /\ SubSeq(s, 1, Len(prefix)) = prefix

\* position of the first occurrence of character c in s, 0 when there is none
IndexOf(s, c) ==
  IF \E i \in 1..Len(s) : s[i] = c
    THEN CHOOSE i \in 1..Len(s) : s[i] = c /\ \A j \in 1..(i - 1) : s[j] # c
    ELSE 0

\* str.split(sep): all the pieces between occurrences of the character sep
RECURSIVE Split(_, _)
Split(s, sep) ==
  LET i == IndexOf(s, sep)
  IN IF i = 0 THEN <<s>>
     ELSE <<SubSeq(s, 1, i - 1)>> \o Split(SubSeq(s, i + 1, Len(s)), sep)

\* str.split(sep, 1): at most one split, at the first occurrence of sep
SplitOnce(s, sep) ==
  LET i == IndexOf(s, sep)
  IN IF i = 0 THEN <<s>>
     ELSE <<SubSeq(s, 1, i - 1), SubSeq(s, i + 1, Len(s))>>

\* ------------------------------------------------------- credential hasher
\* The two hexadecimal digits of a character's code.
HexOfChar(c) ==
  CASE c = "$" -> <<"2", "4">>
    [] c = "1" -> <<"3", "1">>
    [] c = "2" -> <<"3", "2">>
    [] c = "a" -> <<"6", "1">>
    [] c = "b" -> <<"6", "2">>
    [] c = "p" -> <<"7", "0">>
    [] OTHER -> <<"3", "f">>

\* hashlib.sha256(data).hexdigest(): a string of hexadecimal digits that is
\* different for different data (the digest is taken to be collision-free);
\* it is rendered here as the hexadecimal encoding of the data.
RECURSIVE Sha256Hex(_)
Sha256Hex(data) ==
  IF data = <<>> THEN <<>> ELSE HexOfChar(Head(data)) \o Sha256Hex(Tail(data))

\* hash_password with the salt that secrets.token_hex drew
hash_password(password, salt) == salt \o <<"$">> \o Sha256Hex(salt \o password)

\* a verify that compares against the last piece, however many there are
verify_password_last_piece(password, stored_hash) ==
  LET parts == Split(stored_hash, "$")
  IN IF Len(parts) < 2 THEN FALSE
     ELSE Sha256Hex(parts[1] \o password) = parts[Len(parts)]

\* verify_password: unpacking the split into two names raises unless there
\* are exactly two pieces, and every exception yields False
verify_password(password, stored_hash) ==
  LET parts == Split(stored_hash, "$")
  IN IF Len(parts) # 2 THEN FALSE
     ELSE Sha256Hex(parts[1] \o password) = parts[2]

\* -------------------------------------------------------------------- state
VARIABLES
  db,           \* TRUE when the store handle imported from database is not None
  uniqueEmail,  \* TRUE when the store has a unique index on authuser.email
  now,          \* the UTC clock
  authuser,     \* collection "authuser", in insertion order
  session,      \* collection "session", in insertion order
  chatmessage,  \* collection "chatmessage", in insertion order
  pending,      \* register requests between their email check and their insert
  response      \* the most recent response sent, with the request it answers

vars == <<db, uniqueEmail, now, authuser, session, chatmessage, pending, response>>
store == <<authuser, session, chatmessage>>

\* Optional[str] header value
NoHeader == [present |-> FALSE, value |-> <<>>]
Hdr(v) == [present |-> TRUE, value |-> v]

\* secrets.token_urlsafe(32): the n-th token drawn; draws are pairwise distinct
Token(n) == <<"T", "k", TokenChars[n]>>

SchemeBearer == <<"B", "e", "a", "r", "e", "r", " ">>
SchemeLower == <<"b", "e", "a", "r", "e", "r", " ">>
SchemeBasic == <<"B", "a", "s", "i", "c", " ">>
SchemeNoSpace == <<"B", "e", "a", "r", "e", "r">>


\* the request a response answers; fields an endpoint does not take are blank
Req(header, name, email, password, content) ==
  [header |-> header, name |-> name, email |-> email,
   password |-> password, content |-> content]
RegisterReq(name, email, password) == Req(NoHeader, name, email, password, 0)
LoginReq(email, password) == Req(NoHeader, "", email, password, 0)
ChatReq(header, content) == Req(header, "", "", <<>>, content)

Resp(op, req, status, detail, body) ==
  [op |-> op, req |-> req, status |-> status, detail |-> detail, body |-> body]

\* HTTPException(status_code, detail)
HTTPException(op, req, status, detail) == Resp(op, req, status, detail, <<>>)

\* an exception no handler catches is answered with 500 by the framework
ServerError(op, req) == Resp(op, req, 500, "Internal Server Error", <<>>)

\* LoginResponse(token, name, email)
LoginResponse(token, name, email) ==
  [token |-> token, name |-> name, email |-> email]

\* ChatMessageResponse(id, user_name, content, created_at)
ChatMessageResponse(id, user_name, content, created_at) ==
  [id |-> id, user_name |-> user_name, content |-> content,
   created_at |-> created_at]

\* ------------------------------------------------------------------- store
\* create_document(collection, data): stamps created_at and updated_at with
\* the clock and inserts; the new document's identifier is its position.
NewId(coll) == Len(coll) + 1
create_document(coll, data) ==
  Append(coll, data @@ [id |-> NewId(coll), created_at |-> now,
                        updated_at |-> now])

\* dict.get(key, default) on a document
Get(doc, key, default) == IF key \in DOMAIN doc THEN doc[key] ELSE default

\* ObjectId.is_valid on an identifier string
ObjectIdIsValid(id) == id \in Nat /\ id >= 1

\* db[coll].find_one({"_id": ObjectId(id)}): <<>> for None, <<doc>> otherwise
FindById(coll, id) ==
  IF \E i \in DOMAIN coll : coll[i].id = id
    THEN <<coll[CHOOSE i \in DOMAIN coll : coll[i].id = id]>>
    ELSE <<>>

\* a lookup that filters on the wrong field and so never matches
UsersByWrongField(email) == {authuser[i] : i \in {j \in DOMAIN authuser : authuser[j].name = email}}

\* db["authuser"].find_one({"email": email}): every document the store may
\* return; which of several matching documents comes back is not specified
UsersByEmail(email) == {authuser[i] : i \in {j \in DOMAIN authuser : authuser[j].email = email}}

\* the store's unique index on authuser.email, when there is one, makes the
\* insert of a second document with the email raise
DuplicateKeyError(email) ==
  uniqueEmail /\ \E i \in DOMAIN authuser : authuser[i].email = email

\* AuthUser(name, email, password_hash)
AuthUser(name, email, password_hash) ==
  [name |-> name, email |-> email, password_hash |-> password_hash]

\* Session(user_id, token, expires_at)
Session(user_id, token, expires_at) ==
  [user_id |-> user_id, token |-> token, expires_at |-> expires_at]

\* a schema that forgot max_length
ChatMessageNoMax(content) == content >= CONTENT_MIN

\* ChatMessage(user_id, content): the schema's Field(min_length, max_length)
\* makes the constructor raise outside the bounds
ChatMessageValid(content) == content >= CONTENT_MIN /\ content <= CONTENT_MAX
ChatMessage(user_id, content) == [user_id |-> user_id, content |-> content]

\* a session store that keeps one session per user: a new session replaces
\* the user's earlier ones
create_session_single(user_id) ==
  Append(SelectSeq(session, LAMBDA s : s.user_id # user_id),
         Session(user_id, Token(NewId(session)), now + SESSION_DAYS)
           @@ [id |-> NewId(session), created_at |-> now, updated_at |-> now])

\* create_session(user_id): the session collection after the insert
create_session(user_id) ==
  create_document(session,
                  Session(user_id, Token(NewId(session)), now + SESSION_DAYS))

\* a lookup that still accepts a session at the instant it expires
SessionLiveInclusive(s, token) == s.token = token /\ s.expires_at >= now

\* a lookup that forgets the token and takes any unexpired session
get_user_by_token_any(token) ==
  IF ~db THEN <<>>
  ELSE IF ~\E i \in DOMAIN session : session[i].expires_at > now THEN <<>>
  ELSE LET sess == session[CHOOSE i \in DOMAIN session : session[i].expires_at > now]
       IN IF ObjectIdIsValid(sess.user_id)
            THEN FindById(authuser, sess.user_id)
            ELSE <<>>

\* get_user_by_token(token): <<>> for None, <<user>> otherwise
SessionLive(s, token) == s.token = token /\ s.expires_at > now
get_user_by_token(token) ==
  IF ~db THEN <<>>
  ELSE IF ~\E i \in DOMAIN session : SessionLive(session[i], token) THEN <<>>
  ELSE LET sess == session[CHOOSE i \in DOMAIN session :
                             SessionLive(session[i], token)]
       IN IF ObjectIdIsValid(sess.user_id)
            THEN FindById(authuser, sess.user_id)
            ELSE <<>>

\* a scheme test that insists on the exact spelling "Bearer "
BearerExact(value) == StartsWith(value, SchemeBearer)

\* get_current_user(authorization): the 401 it raises, or the user
AuthFail(detail) == [ok |-> FALSE, detail |-> detail, user |-> <<>>]
BearerAccepted(value) == StartsWith(Lower(value), SchemeLower)
get_current_user(authorization) ==
  IF ~authorization.present \/ authorization.value = <<>>
    THEN AuthFail("Missing Authorization header")
  ELSE IF ~BearerAccepted(authorization.value)
    THEN AuthFail("Invalid Authorization header")
  ELSE LET token == SplitOnce(authorization.value, " ")[2]
           user == get_user_by_token(token)
       IN IF user = <<>>
            THEN AuthFail("Invalid or expired token")
            ELSE [ok |-> TRUE, detail |-> "", user |-> user]

\* --------------------------------------------------------------- chat feed
\* db["chatmessage"].find().sort("created_at", -1).limit(limit): every batch
\* the store may return.  Documents with equal created_at come in any order.
\* Every order of the documents at positions I, all of one created_at.
RECURSIVE TieOrders(_, _)
TieOrders(coll, I) ==
  IF I = {} THEN {<<>>}
  ELSE UNION {{<<coll[i]>> \o rest : rest \in TieOrders(coll, I \ {i})} : i \in I}

\* Every descending order of the documents at positions I: the newer half of
\* the creation times first, then the older half.
Stamps(coll, I) == {coll[i].created_at : i \in I}
RECURSIVE SortedDesc(_, _)
SortedDesc(coll, I) ==
  LET stamps == Stamps(coll, I)
  IN IF Cardinality(stamps) <= 1 THEN TieOrders(coll, I)
     ELSE LET pivot == CHOOSE t \in stamps :
                         Cardinality({u \in stamps : u >= t}) = Cardinality(stamps) \div 2
              newer == {i \in I : coll[i].created_at >= pivot}
          IN {a \o b : a \in SortedDesc(coll, newer), b \in SortedDesc(coll, I \ newer)}

FindSortedDesc(coll, limit) ==
  {SubSeq(sorted, 1, IF Len(sorted) < limit THEN Len(sorted) ELSE limit) :
     sorted \in SortedDesc(coll, DOMAIN coll)}

\* a view that leaves the name blank when the author is missing
MessageViewBlank(m) ==
  LET u == IF ObjectIdIsValid(m.user_id) THEN FindById(authuser, m.user_id)
           ELSE <<>>
  IN ChatMessageResponse(m.id, IF u # <<>> THEN u[1].name ELSE "",
                         m.content, m.created_at)

\* the loop body of list_messages: one ChatMessageResponse per document
MessageView(m) ==
  LET u == IF ObjectIdIsValid(m.user_id) THEN FindById(authuser, m.user_id)
           ELSE <<>>
  IN ChatMessageResponse(m.id, IF u # <<>> THEN u[1].name ELSE "Unknown",
                         m.content, m.created_at)

\* a result handed back as the store returned it, newest first
ListResultNewestFirst(batch) == [i \in 1..Len(batch) |-> MessageView(batch[i])]

\* list(reversed(result)) for one batch
ListResult(batch) == Reverse([i \in 1..Len(batch) |-> MessageView(batch[i])])

\* ------------------------------------------------------------------ actions
NoResponse == Resp("none", Req(NoHeader, "", "", <<>>, 0), 0, "", <<>>)

Init ==
  /\ db \in BOOLEAN
  /\ uniqueEmail \in BOOLEAN
  /\ now = 0
  /\ authuser = <<>>
  /\ session = <<>>
  /\ chatmessage = <<>>
  /\ pending = <<>>
  /\ response = NoResponse

\* the clock advances by d units between two requests
Advance(d) ==
  /\ d >= 1
  /\ now' = now + d
  /\ UNCHANGED <<db, uniqueEmail, authuser, session, chatmessage, pending, response>>

\* register, lines 129-133: the store check and the email lookup
RegisterCheck(name, email, password) ==
  LET req == RegisterReq(name, email, password)
  IN /\ IF ~db
          THEN /\ response' = HTTPException("register", req, 500, "Database not configured")
               /\ UNCHANGED pending
        ELSE IF UsersByEmail(email) # {}
          THEN /\ response' = HTTPException("register", req, 400, "Email already registered")
               /\ UNCHANGED pending
        ELSE /\ pending' = Append(pending, req)
             /\ UNCHANGED response
     /\ UNCHANGED <<db, uniqueEmail, now, authuser, session, chatmessage>>

RemoveAt(s, i) == SubSeq(s, 1, i - 1) \o SubSeq(s, i + 1, Len(s))

\* an insert that looks the email up again and refuses a duplicate itself
RegisterInsertRechecked(i, salt) ==
  /\ i \in DOMAIN pending
  /\ LET req == pending[i]
         user == AuthUser(req.name, req.email, hash_password(req.password, salt))
         user_id == NewId(authuser)
     IN IF UsersByEmail(req.email) # {}
          THEN /\ response' = HTTPException("register", req, 400, "Email already registered")
               /\ UNCHANGED <<authuser, session>>
          ELSE /\ authuser' = create_document(authuser, user)
               /\ session' = create_session(user_id)
               /\ response' = Resp("register", req, 200, "",
                                   <<LoginResponse(Token(NewId(session)), user.name, user.email)>>)
  /\ pending' = RemoveAt(pending, i)
  /\ UNCHANGED <<db, uniqueEmail, now, chatmessage>>

\* register, lines 134-137: hash, insert the user, create the session, answer
RegisterInsert(i, salt) ==
  /\ i \in DOMAIN pending
  /\ LET req == pending[i]
         user == AuthUser(req.name, req.email, hash_password(req.password, salt))
         user_id == NewId(authuser)
     IN IF DuplicateKeyError(req.email)
          THEN /\ response' = ServerError("register", req)
               /\ UNCHANGED <<authuser, session>>
          ELSE /\ authuser' = create_document(authuser, user)
               /\ session' = create_session(user_id)
               /\ response' = Resp("register", req, 200, "",
                                   <<LoginResponse(Token(NewId(session)), user.name, user.email)>>)
  /\ pending' = RemoveAt(pending, i)
  /\ UNCHANGED <<db, uniqueEmail, now, chatmessage>>

\* register, lines 134-136, when the store fails the insert that
\* create_session makes: the user document is stored already and nothing
\* takes it back; the exception is answered 500 by the framework
RegisterInsertSessionFails(i, salt) ==
  /\ i \in DOMAIN pending
  /\ LET req == pending[i]
         user == AuthUser(req.name, req.email, hash_password(req.password, salt))
     IN /\ ~DuplicateKeyError(req.email)
        /\ authuser' = create_document(authuser, user)
        /\ response' = ServerError("register", req)
  /\ pending' = RemoveAt(pending, i)
  /\ UNCHANGED <<db, uniqueEmail, now, session, chatmessage>>

\* a login that tells an unknown email from a wrong password
LoginDistinguishing(email, password) ==
  LET req == LoginReq(email, password)
  IN /\ IF ~db
          THEN /\ response' = HTTPException("login", req, 500, "Database not configured")
               /\ UNCHANGED session
        ELSE \E found \in (IF UsersByEmail(email) = {} THEN {<<>>}
                           ELSE {<<u>> : u \in UsersByEmail(email)}) :
               IF found = <<>>
                 THEN /\ response' = HTTPException("login", req, 404, "User not found")
                      /\ UNCHANGED session
               ELSE IF ~verify_password(password, Get(found[1], "password_hash", <<>>))
                 THEN /\ response' = HTTPException("login", req, 401, "Invalid credentials")
                      /\ UNCHANGED session
                 ELSE /\ session' = create_session(found[1].id)
                      /\ response' = Resp("login", req, 200, "",
                                          <<LoginResponse(Token(NewId(session)),
                                                          Get(found[1], "name", ""),
                                                          Get(found[1], "email", ""))>>)
     /\ UNCHANGED <<db, uniqueEmail, now, authuser, chatmessage, pending>>

\* login
Login(email, password) ==
  LET req == LoginReq(email, password)
  IN /\ IF ~db
          THEN /\ response' = HTTPException("login", req, 500, "Database not configured")
               /\ UNCHANGED session
        ELSE \E found \in (IF UsersByEmail(email) = {} THEN {<<>>}
                           ELSE {<<u>> : u \in UsersByEmail(email)}) :
               IF found = <<>> \/ ~verify_password(password, Get(found[1], "password_hash", <<>>))
                 THEN /\ response' = HTTPException("login", req, 401, "Invalid credentials")
                      /\ UNCHANGED session
                 ELSE /\ session' = create_session(found[1].id)
                      /\ response' = Resp("login", req, 200, "",
                                          <<LoginResponse(Token(NewId(session)),
                                                          Get(found[1], "name", ""),
                                                          Get(found[1], "email", ""))>>)
     /\ UNCHANGED <<db, uniqueEmail, now, authuser, chatmessage, pending>>

\* GET /chat: the get_current_user dependency, then list_messages
ListMessages(authorization) ==
  LET req == ChatReq(authorization, 0)
      auth == get_current_user(authorization)
  IN /\ IF ~auth.ok
          THEN response' = HTTPException("list", req, 401, auth.detail)
        ELSE IF ~db
          THEN response' = HTTPException("list", req, 500, "Database not configured")
        ELSE \E batch \in FindSortedDesc(chatmessage, LIST_LIMIT) :
               response' = Resp("list", req, 200, "", ListResult(batch))
     /\ UNCHANGED <<db, uniqueEmail, now, authuser, session, chatmessage, pending>>

\* a post that writes the document first and validates it afterwards
PostMessageStoreFirst(authorization, content) ==
  LET req == ChatReq(authorization, content)
      auth == get_current_user(authorization)
  IN /\ IF ~auth.ok
          THEN /\ response' = HTTPException("post", req, 401, auth.detail)
               /\ UNCHANGED chatmessage
        ELSE IF ~db
          THEN /\ response' = HTTPException("post", req, 500, "Database not configured")
               /\ UNCHANGED chatmessage
        ELSE /\ chatmessage' = create_document(chatmessage,
                                               ChatMessage(auth.user[1].id, content))
             /\ IF ~ChatMessageValid(content)
                  THEN response' = ServerError("post", req)
                  ELSE response' = Resp("post", req, 200, "",
                                        <<ChatMessageResponse(NewId(chatmessage),
                                                              auth.user[1].name,
                                                              content, now)>>)
     /\ UNCHANGED <<db, uniqueEmail, now, authuser, session, pending>>

\* POST /chat: the get_current_user dependency, then post_message
PostMessage(authorization, content) ==
  LET req == ChatReq(authorization, content)
      auth == get_current_user(authorization)
  IN /\ IF ~auth.ok
          THEN /\ response' = HTTPException("post", req, 401, auth.detail)
               /\ UNCHANGED chatmessage
        ELSE IF ~db
          THEN /\ response' = HTTPException("post", req, 500, "Database not configured")
               /\ UNCHANGED chatmessage
        ELSE IF ~ChatMessageValid(content)
          THEN /\ response' = ServerError("post", req)
               /\ UNCHANGED chatmessage
        ELSE /\ chatmessage' = create_document(chatmessage,
                                               ChatMessage(auth.user[1].id, content))
             /\ LET saved == FindById(chatmessage', NewId(chatmessage))[1]
                IN response' = Resp("post", req, 200, "",
                                    <<ChatMessageResponse(NewId(chatmessage),
                                                          auth.user[1].name,
                                                          saved.content,
                                                          saved.created_at)>>)
     /\ UNCHANGED <<db, uniqueEmail, now, authuser, session, pending>>

\* ------------------------------------------------- writes by other parties
\* The store is shared with its operator.  A deleted account: the document is
\* gone from the collection, so no lookup by identifier or by email matches
\* it; its slot stays, so that its identifier is never handed out again.
Removed ==
  [name |-> "", email |-> "", password_hash |-> <<>>, id |-> 0,
   created_at |-> 0, updated_at |-> 0]
AccountRemoved(i) ==
  /\ i \in DOMAIN authuser
  /\ authuser[i] # Removed
  /\ authuser' = [authuser EXCEPT ![i] = Removed]
  /\ UNCHANGED <<db, uniqueEmail, now, session, chatmessage, pending, response>>

\* A message document written by another party, whose user_id is not an
\* identifier of the store (0 stands for such a text).
MessageImported(user_id, content) ==
  /\ ~ObjectIdIsValid(user_id)
  /\ chatmessage' = create_document(chatmessage, ChatMessage(user_id, content))
  /\ UNCHANGED <<db, uniqueEmail, now, authuser, session, pending, response>>

\* ---------------------------------------------------------- specifications
\* what the clients send
Reg(name, email, password) == [name |-> name, email |-> email, password |-> password]
Alice == Reg("Alice", "a@x.com", <<"p">>)
Bob == Reg("Bob", "b@x.com", <<"p">>)
Mallory == Reg("Bob", "a@x.com", <<"p", "$">>)
Registrations == {Alice, Bob, Mallory}

\* Authorization headers that carry the n-th token
Bearer(n) == Hdr(SchemeBearer \o Token(n))
BadHeaders ==
  {NoHeader, Hdr(<<>>), Hdr(SchemeBasic \o Token(1)), Hdr(SchemeNoSpace \o Token(1))}
GoodHeaders == {Bearer(n) : n \in 1..MaxSessions} \cup {Hdr(SchemeLower \o Token(1))}
ChatHeaders == BadHeaders \cup GoodHeaders

\* The collections and the clock grow without limit; a run is followed while
\* they stay within the bounds.
Within(users, sessions, messages, time) ==
  /\ Len(authuser') <= users
  /\ Len(session') <= sessions
  /\ Len(chatmessage') <= messages
  /\ Len(pending') <= MaxPending
  /\ now' <= time
Bounded == Within(MaxUsers, MaxSessions, MaxMessages, MaxTime)

\* the chat service: two users, every header and every content length
Next ==
  \/ \E d \in {SESSION_DAYS + 1} : Advance(d) /\ Bounded
  \/ \E r \in {Alice, Bob} : RegisterCheck(r.name, r.email, r.password) /\ Bounded
  \/ \E i \in 1..MaxPending, salt \in {<<"a", "1">>} : RegisterInsert(i, salt) /\ Bounded
  \/ \E r \in {Alice} : Login(r.email, r.password) /\ Bounded
  \/ \E authorization \in ChatHeaders : ListMessages(authorization)
  \/ \E authorization \in GoodHeaders, content \in Contents :
       PostMessage(authorization, content) /\ Bounded
  \/ \E authorization \in BadHeaders, content \in {CONTENT_MIN} :
       PostMessage(authorization, content) /\ Bounded

Spec == Init /\ [][Next]_vars

\* registration and login: every registration, salt and credential, clock still
NextAuth ==
  \/ \E r \in Registrations : RegisterCheck(r.name, r.email, r.password) /\ Bounded
  \/ \E i \in 1..MaxPending, salt \in Salts : RegisterInsert(i, salt) /\ Bounded
  \/ \E email \in Emails, password \in Passwords : Login(email, password) /\ Bounded

SpecAuth == Init /\ [][NextAuth]_vars

\* session lifetime: one account, the clock running day by day
NextSession ==
  \/ \E d \in {1} : Advance(d) /\ Bounded
  \/ \E r \in {Alice} : RegisterCheck(r.name, r.email, r.password) /\ Bounded
  \/ \E i \in 1..MaxPending, salt \in {<<"a", "1">>} : RegisterInsert(i, salt) /\ Bounded
  \/ \E r \in {Alice} : Login(r.email, r.password) /\ Bounded
  \/ \E authorization \in {Bearer(n) : n \in 1..MaxSessions} :
       ListMessages(authorization)
  \/ \E authorization \in {Bearer(1), NoHeader}, content \in {CONTENT_MIN} :
       PostMessage(authorization, content) /\ Bounded

SpecSession == Init /\ [][NextSession]_vars

\* The feed of a store that has been in use: Alice registered on day 0, logged
\* in again every SESSION_DAYS - 1 days and posted n messages, one a day from
\* day 1 on, except that the first 1 + same of them were posted on day 1; the
\* last of them has just been posted.
RenewEvery == SESSION_DAYS - 1
Later(a, b) == IF a >= b THEN a ELSE b
UsedStore(n, same) ==
  /\ db = TRUE
  /\ uniqueEmail = FALSE
  /\ now = n - same
  /\ authuser = <<AuthUser(Alice.name, Alice.email, hash_password(Alice.password, <<"a", "1">>))
                    @@ [id |-> 1, created_at |-> 0, updated_at |-> 0]>>
  /\ session = [k \in 1..(((n - same) \div RenewEvery) + 1) |->
                  Session(1, Token(k), (k - 1) * RenewEvery + SESSION_DAYS)
                    @@ [id |-> k, created_at |-> (k - 1) * RenewEvery,
                        updated_at |-> (k - 1) * RenewEvery]]
  /\ chatmessage = [i \in 1..n |->
                      ChatMessage(1, CONTENT_MIN)
                        @@ [id |-> i, created_at |-> Later(i - same, 1),
                            updated_at |-> Later(i - same, 1)]]
  /\ pending = <<>>
  /\ response = NoResponse

InitFeed ==
  \E n \in {LIST_LIMIT - 1, LIST_LIMIT}, same \in {0, 1} : UsedStore(n, same)

BoundedFeed ==
  Within(MaxUsers, Len(session), LIST_LIMIT + MaxMessages, LIST_LIMIT + 1)

NextFeed ==
  \/ \E d \in {1} : Advance(d) /\ BoundedFeed
  \/ \E authorization \in {Bearer(Len(session)), NoHeader} : ListMessages(authorization)
  \/ \E authorization \in {Bearer(Len(session))}, content \in {CONTENT_MIN} :
       PostMessage(authorization, content) /\ BoundedFeed

SpecFeed == InitFeed /\ [][NextFeed]_vars

\* authors that are missing: accounts, any of which may be deleted, and
\* messages of unidentifiable authors, in an available store, clock still;
\* the feed is read with the newest session
InitOrphan == Init /\ db /\ ~uniqueEmail

NextOrphan ==
  \/ \E r \in {Alice, Bob} : RegisterCheck(r.name, r.email, r.password) /\ Bounded
  \/ \E i \in 1..MaxPending, salt \in {<<"a", "1">>} : RegisterInsert(i, salt) /\ Bounded
  \/ \E i \in 1..MaxUsers : AccountRemoved(i)
  \/ \E user_id \in {0}, content \in {CONTENT_MIN} :
       MessageImported(user_id, content) /\ Bounded
  \/ \E authorization \in {Bearer(n) : n \in {k \in 1..MaxSessions : k = Len(session)}} :
       ListMessages(authorization)
  \/ \E authorization \in {Bearer(n) : n \in 1..MaxSessions}, content \in {CONTENT_MIN} :
       PostMessage(authorization, content) /\ Bounded

SpecOrphan == InitOrphan /\ [][NextOrphan]_vars

\* Stored hashes a user record may carry: the one hash_password writes, and
\* values of other shapes (empty, no delimiter, the delimiter twice).
WellFormedHash == hash_password(<<"p">>, <<"a", "1">>)
StoredHashes ==
  {WellFormedHash,
   <<>>,
   <<"a", "1">> \o Sha256Hex(<<"a", "1", "p">>),
   <<"a", "1", "$", "x", "$">> \o Sha256Hex(<<"a", "1", "p">>)}

\* A store that holds one user record written by another party, with one of
\* the stored hashes or with no password_hash field at all.
LegacyUser == [name |-> "Alice", email |-> "a@x.com", id |-> 1,
               created_at |-> 0, updated_at |-> 0]
LegacyStore(record) ==
  /\ db \in BOOLEAN
  /\ uniqueEmail \in BOOLEAN
  /\ now = 0
  /\ authuser = <<record>>
  /\ session = <<>>
  /\ chatmessage = <<>>
  /\ pending = <<>>
  /\ response = NoResponse

InitLegacy ==
  \E record \in {LegacyUser} \cup {LegacyUser @@ [password_hash |-> h] : h \in StoredHashes} :
    LegacyStore(record)

\* login against such records, next to registrations made by the program
NextLegacy ==
  \/ \E r \in {Bob, Mallory} : RegisterCheck(r.name, r.email, r.password) /\ Bounded
  \/ \E i \in 1..MaxPending, salt \in {<<"a", "1">>} : RegisterInsert(i, salt) /\ Bounded
  \/ \E email \in Emails, password \in Passwords : Login(email, password) /\ Bounded

SpecLegacy == InitLegacy /\ [][NextLegacy]_vars

\* registration and login over a store whose writes can fail
NextFault ==
  \/ \E r \in {Alice, Bob} : RegisterCheck(r.name, r.email, r.password) /\ Bounded
  \/ \E i \in 1..MaxPending, salt \in {<<"a", "1">>} : RegisterInsert(i, salt) /\ Bounded
  \/ \E i \in 1..MaxPending, salt \in {<<"a", "1">>} :
       RegisterInsertSessionFails(i, salt) /\ Bounded
  \/ \E r \in {Alice, Bob} : Login(r.email, r.password) /\ Bounded

SpecFault == Init /\ [][NextFault]_vars

\* ------------------------------------------------------------------ claims
\* what a step shows of the request it serves
Answered == response' # response
CheckAnswered == Answered /\ response'.op = "register" /\ pending' = pending
CheckPassed == Len(pending') > Len(pending)
InsertDone == Len(pending') < Len(pending)
RegisterSucceeded(r) ==
  /\ r.status = 200
  /\ Len(r.body) = 1
  /\ r.body[1].name = r.req.name
  /\ r.body[1].email = r.req.email

\* the documents of a collection that carry the email
WithEmail(coll, email) == {i \in DOMAIN coll : coll[i].email = email}

\* C1: with the store available, a register request whose email check runs
\* once a user with that email is stored (an earlier register with the email
\* has completed) is answered 400 "Email already registered" and never gets
\* to the insert; a register request that reaches its insert while no user
\* has its email is answered 200 with {token, name, email}, the token being
\* that of a session stored for the new user.
C1_SecondRegisterFails ==
  [][/\ (CheckAnswered /\ db /\ WithEmail(authuser, response'.req.email) # {})
          => /\ response'.status = 400
             /\ response'.detail = "Email already registered"
             /\ response'.body = <<>>
             /\ store' = store
     /\ CheckPassed => WithEmail(authuser, pending'[Len(pending')].email) = {}
     /\ (InsertDone /\ WithEmail(authuser, response'.req.email) = {})
          => /\ RegisterSucceeded(response')
             /\ \E u \in WithEmail(authuser', response'.req.email) :
                  \E i \in DOMAIN session' :
                    /\ session'[i].user_id = authuser'[u].id
                    /\ session'[i].token = response'.body[1].token
    ]_vars

\* C1 witness: a second register with a stored email, a different name and a
\* different password, has just been refused while nothing else was in flight.
C1_Witness ==
  /\ response.op = "register"
  /\ response.status = 400
  /\ pending = <<>>
  /\ \E u \in WithEmail(authuser, response.req.email) :
       /\ authuser[u].name # response.req.name
       /\ ~verify_password(response.req.password, authuser[u].password_hash)

\* C2: a session created at time T authenticates its user at every time
\* before T + 7 days and is refused as "Invalid or expired token" at every
\* time from T + 7 days on, T + 7 days included, whatever was done in between:
\* both for authenticate evaluated in every reachable state and for every
\* chat request actually answered.
C2_SessionLifetime ==
  /\ [](\A i \in DOMAIN session :
          LET s == session[i]
              auth == get_current_user(Hdr(SchemeBearer \o s.token))
          IN IF now < s.created_at + SESSION_DAYS
               THEN auth.ok /\ auth.user[1].id = s.user_id
               ELSE ~auth.ok /\ auth.detail = "Invalid or expired token")
  /\ [][\A i \in DOMAIN session :
          (/\ Answered
           /\ response'.op \in {"list", "post"}
           /\ response'.req.header = Hdr(SchemeBearer \o session[i].token))
            => IF now < session[i].created_at + SESSION_DAYS
                 THEN response'.status = 200
                 ELSE /\ response'.status = 401
                      /\ response'.detail = "Invalid or expired token"
      ]_vars

\* C2 witness: a chat request carrying a session's token has just been
\* refused at exactly T + 7 days, after a later login and a post.
C2_Witness ==
  /\ Len(session) >= 2
  /\ chatmessage # <<>>
  /\ now = session[1].created_at + SESSION_DAYS
  /\ response.op = "list"
  /\ response.req.header = Hdr(SchemeBearer \o session[1].token)
  /\ response.status = 401
  /\ response.detail = "Invalid or expired token"

\* C3: with the store available, a login whose email matches no user and a
\* login whose password verifies against no stored hash of the email get the
\* same answer, 401 "Invalid credentials" with an empty body, and neither
\* creates a session or changes the store.
C3_LoginFailuresAlike ==
  [][(/\ Answered
      /\ response'.op = "login"
      /\ db
      /\ \A i \in WithEmail(authuser, response'.req.email) :
           ~verify_password(response'.req.password, authuser[i].password_hash))
       => /\ response'.status = 401
          /\ response'.detail = "Invalid credentials"
          /\ response'.body = <<>>
          /\ store' = store
    ]_vars

\* C3 witness: a login with a registered email and a wrong password has
\* just been refused.
C3_Witness ==
  /\ response.op = "login"
  /\ response.status = 401
  /\ WithEmail(authuser, response.req.email) # {}
  /\ \A i \in WithEmail(authuser, response.req.email) :
       ~verify_password(response.req.password, authuser[i].password_hash)

\* the sessions a header's token resolves to: the header starts with prefix
\* (as the test accepts it), and the session carries the text after the
\* prefix, is unexpired and references a stored user
TokenAfter(value, prefix) == SubSeq(value, Len(prefix) + 1, Len(value))
Resolves(value, prefix) ==
  {i \in DOMAIN session :
     /\ session[i].token = TokenAfter(value, prefix)
     /\ now < session[i].expires_at
     /\ \E u \in DOMAIN authuser : authuser[u].id = session[i].user_id}

\* the gate of the chat endpoints, deciding in order: MissingAuth,
\* MalformedAuth when accepted is false, InvalidOrExpiredToken, else the user
GateHolds(accepted, value, present) ==
  IF ~present \/ value = <<>>
    THEN /\ response'.status = 401
         /\ response'.detail = "Missing Authorization header"
         /\ response'.body = <<>>
         /\ store' = store
  ELSE IF ~accepted
    THEN /\ response'.status = 401
         /\ response'.detail = "Invalid Authorization header"
         /\ response'.body = <<>>
         /\ store' = store
  ELSE IF ~db \/ Resolves(value, SchemeBearer) = {}
    THEN /\ response'.status = 401
         /\ response'.detail = "Invalid or expired token"
         /\ response'.body = <<>>
         /\ store' = store
  ELSE /\ response'.detail \notin {"Missing Authorization header",
                                   "Invalid Authorization header",
                                   "Invalid or expired token"}
       /\ response'.status # 401
       /\ (response'.op = "post" /\ response'.status = 200)
            => \E i \in Resolves(value, SchemeBearer) :
                 /\ chatmessage'[Len(chatmessage')].user_id = session[i].user_id
                 /\ \E u \in DOMAIN authuser :
                      /\ authuser[u].id = session[i].user_id
                      /\ response'.body[1].user_name = authuser[u].name

\* C4 as stated: the header is malformed unless it starts with "Bearer ",
\* spelled exactly so.
C4_CaseSensitivePrefix ==
  [][(Answered /\ response'.op \in {"list", "post"})
       => GateHolds(StartsWith(response'.req.header.value, SchemeBearer),
                    response'.req.header.value, response'.req.header.present)
    ]_vars

\* C4 amended: every chat read and chat write is decided by the gate first, in
\* this order: MissingAuth when the header is absent or empty; MalformedAuth
\* when the header does not start with "bearer " compared without regard to
\* letter case; InvalidOrExpiredToken when no unexpired session with the
\* token after the prefix resolves to a stored user; otherwise the request
\* runs as that user.  A request the gate refuses returns no message and
\* leaves the store unchanged.
C4_GateOrder ==
  [][(Answered /\ response'.op \in {"list", "post"})
       => GateHolds(StartsWith(Lower(response'.req.header.value), SchemeLower),
                    response'.req.header.value, response'.req.header.present)
    ]_vars

\* C4 witness: a post whose header spells the scheme "bearer " has been
\* accepted and stored for the token's user.
C4_Witness ==
  /\ response.op = "post"
  /\ response.status = 200
  /\ response.req.header = Hdr(SchemeLower \o Token(1))
  /\ chatmessage # <<>>

\* C5: once a message has been posted and a list is answered with no other
\* post in between, the last element of the list is the posted message and
\* carries the name its poster registered with.
C5_PostedMessageLast ==
  (response.op = "list" /\ response.status = 200 /\ chatmessage # <<>>)
    => /\ response.body # <<>>
       /\ LET posted == chatmessage[Len(chatmessage)]
              last == response.body[Len(response.body)]
          IN /\ last.id = posted.id
             /\ \E u \in DOMAIN authuser :
                  /\ authuser[u].id = posted.user_id
                  /\ last.user_name = authuser[u].name

\* C6: a list answers with min(N, 50) of the N stored messages; none of the
\* messages left out is newer than one returned; the answer is in ascending
\* order of creation time; and the list changes nothing in the store.
Min(a, b) == IF a <= b THEN a ELSE b
ListedIds == {response.body[k].id : k \in DOMAIN response.body}
C6_ListNewestFifty ==
  /\ []((response.op = "list" /\ response.status = 200)
          => /\ Len(response.body) = Min(Len(chatmessage), 50)
             /\ Cardinality(ListedIds) = Len(response.body)
             /\ ListedIds \subseteq DOMAIN chatmessage
             /\ \A k \in DOMAIN response.body :
                  /\ response.body[k].created_at
                       = chatmessage[response.body[k].id].created_at
                  /\ response.body[k].content
                       = chatmessage[response.body[k].id].content
             /\ \A i \in ListedIds, j \in DOMAIN chatmessage \ ListedIds :
                  chatmessage[i].created_at >= chatmessage[j].created_at
             /\ \A k \in DOMAIN response.body, l \in DOMAIN response.body :
                  k < l => response.body[k].created_at <= response.body[l].created_at)
  /\ [][(Answered /\ response'.op = "list") => store' = store]_vars

\* C6 witness: a list over more than 50 stored messages, the two oldest of
\* them created at the same time, has returned exactly 50.
C6_Witness ==
  /\ response.op = "list"
  /\ response.status = 200
  /\ Len(chatmessage) > 50
  /\ Len(response.body) = 50
  /\ chatmessage[1].created_at = chatmessage[2].created_at

\* C7: with the store handle absent every request is answered 500.
C7_StoreUnavailableIs500 ==
  (~db /\ response.op # "none") => response.status = 500

\* C8: a post whose content has length 0 or more than 2000 fails and stores
\* nothing, though the request itself carries any length; every stored
\* message has a content of 1 to 2000 characters.
C8_ContentLength ==
  /\ [](\A i \in DOMAIN chatmessage :
          chatmessage[i].content >= 1 /\ chatmessage[i].content <= 2000)
  /\ [][(/\ Answered
         /\ response'.op = "post"
         /\ (response'.req.content = 0 \/ response'.req.content > 2000))
          => /\ response'.status # 200
             /\ response'.body = <<>>
             /\ store' = store
      ]_vars

\* C8 witness: a message of 2000 characters is stored, and a post of 2001
\* characters that passed the gate has just been refused.
C8_Witness ==
  /\ \E i \in DOMAIN chatmessage : chatmessage[i].content = 2000
  /\ response.op = "post"
  /\ response.req.content = 2001
  /\ response.status = 500
  /\ Resolves(response.req.header.value, SchemeBearer) # {}

\* C9: verify accepts exactly the password that was hashed, also one with a
\* '$' in it; and once a user is registered with an email and a password, a
\* login with that email succeeds with that password and is refused with
\* "Invalid credentials" for any other.
C9_PasswordRoundTrip ==
  /\ \A p \in Passwords, q \in Passwords, salt \in Salts :
       verify_password(p, hash_password(q, salt)) <=> (p = q)
  /\ (response.op = "login" /\ db)
       => \A i \in WithEmail(authuser, response.req.email) :
            IF verify_password(response.req.password, authuser[i].password_hash)
              THEN response.status = 200
              ELSE response.status = 401 /\ response.detail = "Invalid credentials"

\* C10: the email check and the insert are separate steps.  A request passes
\* the check only while no user has its email; when it then inserts after
\* another request has inserted the same email, the store's unique index, if
\* there is one, makes it fail and the email stays unique; without the index
\* it succeeds like the first, and two users share the email.
C10_CheckThenInsert ==
  /\ [](uniqueEmail =>
          \A i \in DOMAIN authuser, j \in DOMAIN authuser :
            authuser[i].email = authuser[j].email => i = j)
  /\ [][/\ CheckPassed => WithEmail(authuser, pending'[Len(pending')].email) = {}
        /\ (InsertDone /\ WithEmail(authuser, response'.req.email) # {})
             => IF uniqueEmail
                  THEN response'.status = 500 /\ store' = store
                  ELSE /\ RegisterSucceeded(response')
                       /\ Len(authuser') = Len(authuser) + 1
                       /\ Cardinality(WithEmail(authuser', response'.req.email)) >= 2
      ]_vars

\* C10 witness: two users share an email, each with a session of its own,
\* and the second registration has just been answered 200.
C10_Witness ==
  /\ response.op = "register"
  /\ response.status = 200
  /\ \E i \in DOMAIN authuser, j \in DOMAIN authuser :
       /\ i # j
       /\ authuser[i].email = authuser[j].email
       /\ authuser[i].email = response.req.email
       /\ \E a \in DOMAIN session, b \in DOMAIN session :
            session[a].user_id = authuser[i].id /\ session[b].user_id = authuser[j].id

\* the stored users a message's user_id identifies
AuthorsOf(m) ==
  {u \in DOMAIN authuser : m.user_id >= 1 /\ authuser[u].id = m.user_id}

Grown(old, new) == Len(new) >= Len(old) /\ SubSeq(new, 1, Len(old)) = old

\* C12: every step leaves each stored user, session and chat message as it
\* was and at most appends; a register or login answered 200 appends exactly
\* one session, the one whose token it returns, and nothing else appends a
\* session; a stored session past its expiry is still stored and resolves to
\* no user, and a stored session before its expiry resolves to its user
\* however many sessions were created for that user after it.
C12_StoreOnlyGrows ==
  /\ [][/\ Grown(authuser, authuser')
        /\ Grown(session, session')
        /\ Grown(chatmessage, chatmessage')
        /\ IF /\ Answered
              /\ response'.op \in {"register", "login"}
              /\ response'.status = 200
             THEN /\ Len(session') = Len(session) + 1
                  /\ session'[Len(session')].token = response'.body[1].token
             ELSE session' = session
       ]_vars
  /\ [](\A i \in DOMAIN session :
          LET user == get_user_by_token(session[i].token)
          IN IF now >= session[i].expires_at
               THEN user = <<>>
               ELSE user # <<>> /\ user[1].id = session[i].user_id)

\* C12 witness: after a second login of the same user, the first session is
\* past its expiry, still stored, and resolves to no user, while the second
\* session resolves to the user.
C12_Witness ==
  /\ Len(session) >= 2
  /\ response.op = "login"
  /\ response.status = 200
  /\ session[1].user_id = session[2].user_id
  /\ now >= session[1].expires_at
  /\ get_user_by_token(session[1].token) = <<>>
  /\ get_user_by_token(session[2].token) # <<>>

\* a user record whose stored hash is not salt, one '$', digest
DollarCount(h) == Cardinality({i \in DOMAIN h : h[i] = "$"})
Malformed(u) ==
  \/ "password_hash" \notin DOMAIN u
  \/ DollarCount(u.password_hash) # 1

\* C13: verify is false for every stored hash with no '$', with more than
\* one '$' or empty; and with the store available, a login whose email
\* matches only user records with such a hash, or with no hash at all, is
\* answered 401 "Invalid credentials", not a server error, and creates no
\* session.
C13_MalformedHashRefused ==
  /\ [](\A h \in StoredHashes, password \in Passwords :
          DollarCount(h) # 1 => ~verify_password(password, h))
  /\ [][(/\ Answered
         /\ response'.op = "login"
         /\ db
         /\ WithEmail(authuser, response'.req.email) # {}
         /\ \A i \in WithEmail(authuser, response'.req.email) : Malformed(authuser[i]))
          => /\ response'.status = 401
             /\ response'.detail = "Invalid credentials"
             /\ response'.body = <<>>
             /\ store' = store
      ]_vars

\* C13 witness: a login with the password whose digest is the last piece of
\* a stored hash with two '$' has just been refused.
C13_Witness ==
  /\ response.op = "login"
  /\ response.status = 401
  /\ response.detail = "Invalid credentials"
  /\ \E i \in WithEmail(authuser, response.req.email) :
       /\ "password_hash" \in DOMAIN authuser[i]
       /\ DollarCount(authuser[i].password_hash) = 2
       /\ LET parts == Split(authuser[i].password_hash, "$")
          IN Sha256Hex(parts[1] \o response.req.password) = parts[3]

\* C14: tokens being pairwise distinct, a session is created only by a
\* register answered 200, for the user that register stored, or by a login
\* answered 200, for a user with the login's email whose stored hash verifies
\* the login's password; its token is the one returned; a stored session
\* never changes; authenticate with a session's token yields no user other
\* than the session's; and a chat message is stored only with the user_id of
\* an unexpired session whose token the post request presented.
C14_TokenBinding ==
  /\ [](\A i \in DOMAIN session :
          /\ \A j \in DOMAIN session : session[i].token = session[j].token => i = j
          /\ LET auth == get_current_user(Hdr(SchemeBearer \o session[i].token))
             IN auth.ok => /\ auth.user[1].id = session[i].user_id
                           /\ \E u \in DOMAIN authuser : authuser[u] = auth.user[1])
  /\ [][/\ \A i \in DOMAIN session : i \in DOMAIN session' /\ session'[i] = session[i]
        /\ \A i \in DOMAIN chatmessage :
             i \in DOMAIN chatmessage' /\ chatmessage'[i] = chatmessage[i]
        /\ Len(session') > Len(session)
             => /\ Answered
                /\ response'.status = 200
                /\ Len(session') = Len(session) + 1
                /\ session'[Len(session')].token = response'.body[1].token
                /\ \/ /\ response'.op = "register"
                      /\ Len(authuser') = Len(authuser) + 1
                      /\ LET user == authuser'[Len(authuser')]
                         IN /\ session'[Len(session')].user_id = user.id
                            /\ user.name = response'.req.name
                            /\ user.email = response'.req.email
                            /\ verify_password(response'.req.password, user.password_hash)
                   \/ /\ response'.op = "login"
                      /\ \E u \in WithEmail(authuser, response'.req.email) :
                           /\ session'[Len(session')].user_id = authuser[u].id
                           /\ verify_password(response'.req.password,
                                              authuser[u].password_hash)
        /\ Len(chatmessage') > Len(chatmessage)
             => /\ Answered
                /\ response'.op = "post"
                /\ Len(chatmessage') = Len(chatmessage) + 1
                /\ \E i \in DOMAIN session :
                     /\ session[i].token = TokenAfter(response'.req.header.value, SchemeBearer)
                     /\ now < session[i].expires_at
                     /\ chatmessage'[Len(chatmessage')].user_id = session[i].user_id
      ]_vars

\* C14 witness: two users each hold a session, and a post presenting the
\* second user's token has just been stored with the second user's id and
\* answered with the second user's name.
C14_Witness ==
  /\ response.op = "post"
  /\ response.status = 200
  /\ Len(authuser) = 2
  /\ authuser[1].name # authuser[2].name
  /\ \E i \in DOMAIN session, j \in DOMAIN session :
       /\ session[j].user_id = authuser[1].id
       /\ session[i].user_id = authuser[2].id
       /\ response.req.header = Hdr(SchemeBearer \o session[i].token)
       /\ chatmessage[Len(chatmessage)].user_id = authuser[2].id
       /\ response.body[1].user_name = authuser[2].name

\* the refusals of the claim, as the response shows them
Rejected(r) ==
  \/ r.op = "register" /\ r.status = 400 /\ r.detail = "Email already registered"
  \/ r.op = "login" /\ r.status = 401 /\ r.detail = "Invalid credentials"
  \/ /\ r.op \in {"list", "post"}
     /\ r.status = 401
     /\ r.detail \in {"Missing Authorization header", "Invalid Authorization header",
                      "Invalid or expired token"}
  \/ /\ r.op = "post"
     /\ r.status # 200
     /\ (r.req.content < 1 \/ r.req.content > 2000)

\* C15: a request answered with DuplicateEmail, InvalidCredentials, one of
\* the three refusals of authenticate, or a refusal of a post whose content
\* is empty or longer than 2000 leaves every user, session and chat message
\* as it was, creates none, queues no insert, and returns no body.
C15_FailuresLeaveStore ==
  [][(Answered /\ Rejected(response'))
       => /\ store' = store
          /\ pending' = pending
          /\ response'.body = <<>>
    ]_vars

\* C15 witness: with a user, a session and a chat message stored, a login
\* for an email nobody registered has just been refused.
C15_Witness ==
  /\ response.op = "login"
  /\ response.status = 401
  /\ authuser # <<>>
  /\ session # <<>>
  /\ chatmessage # <<>>
  /\ WithEmail(authuser, response.req.email) = {}

\* C16: a register request that ends has either stored a user and a session
\* for it and returned the session's token, or stored nothing; every stored
\* user has a session; and a register that failed has not taken its email.
C16_RegisterAllOrNothing ==
  /\ [](\A u \in DOMAIN authuser :
          \E i \in DOMAIN session : session[i].user_id = authuser[u].id)
  /\ [][(Answered /\ response'.op = "register")
          => IF response'.status = 200
               THEN /\ Len(authuser') = Len(authuser) + 1
                    /\ Len(session') = Len(session) + 1
                    /\ session'[Len(session')].user_id = authuser'[Len(authuser')].id
                    /\ session'[Len(session')].token = response'.body[1].token
               ELSE /\ store' = store
                    /\ WithEmail(authuser', response'.req.email)
                         = WithEmail(authuser, response'.req.email)
      ]_vars

====
